---- MODULE Spec2Model ----
(***************************************************************************)
(* Model of the ImagiNation concordance page (src/src/App.tsx): the corpus *)
(* load effect, the query field, the filter handlers, the asynchronous     *)
(* performSearch function with its awaits, and the details modal.          *)
(*                                                                         *)
(* Every handler of the component is one action.  performSearch is an      *)
(* async function: the code up to the first await is one action, and each  *)
(* continuation after an await is one action (JavaScript runs each of them *)
(* to completion on the single event-loop thread).                         *)
(*                                                                         *)
(* An optional field of a Metadata record (title, author, year, category)  *)
(* that is absent, null or empty is the empty string "": the code only     *)
(* ever tests these fields for truthiness (item.author && ..., x || "..")   *)
(* and all three are falsy.                                                *)
(***************************************************************************)
EXTENDS Integers, Sequences, FiniteSets, TLC

(***************************************************************************)
(* Bounds of the model.                                                    *)
(***************************************************************************)
\* accepted searches (calls of performSearch that pass validation)
MaxSearches == 2
\* filter changes (category, author and year handlers)
MaxFilterEdits == 2

(***************************************************************************)
(* Program constants.                                                      *)
(***************************************************************************)
MIN_YEAR == 1814
MAX_YEAR == 1905
LIMIT == 1000
WINDOW == 20

\* The <select> options; the head is the sentinel.  The source lists 21
\* categories, the model keeps the sentinel and two of the others.
CATEGORIES == <<"All Categories", "Diktning: Epikk", "Diverse">>

(***************************************************************************)
(* Generic helpers for the array methods the code uses.                    *)
(***************************************************************************)
Range(s) == {s[i] : i \in 1..Len(s)}

\* Array.prototype.includes
Includes(s, x) == \E i \in 1..Len(s) : s[i] = x

\* Array.prototype.filter
RECURSIVE FilterSeq(_, _)
FilterSeq(s, keep) ==
    IF s = <<>> THEN <<>>
    ELSE IF Head(s) \in keep THEN <<Head(s)>> \o FilterSeq(Tail(s), keep)
    ELSE FilterSeq(Tail(s), keep)

\* Array.prototype.join on an array of strings
RECURSIVE Join(_, _)
Join(s, sep) ==
    IF s = <<>> THEN ""
    ELSE IF Len(s) = 1 THEN s[1]
    ELSE s[1] \o sep \o Join(Tail(s), sep)

(***************************************************************************)
(* Metadata records and the corpus payloads the load can receive.          *)
(***************************************************************************)
\* interface Metadata
Metadata(urn, title, author, year, category) ==
    [urn |-> urn, title |-> title, author |-> author, year |-> year,
     category |-> category]

RecEpic == Metadata("URN:1", "Synnove Solbakken", "Bjornson", "1857", "Diktning: Epikk")
RecDiv == Metadata("URN:2", "Ervingen", "Aasen", "1905", "Diverse")
RecOdd == Metadata("URN:3", "Digte", "Bjornson", "abc", "Diktning: Epikk")
RecBare == Metadata("URN:4", "", "", "", "")
RecCirca == Metadata("URN:5", "Sange", "Aasen", "1857?", "Diverse")

Corpus == <<RecEpic, RecDiv, RecOdd, RecBare, RecCirca>>

\* What res.json() of corpus.json resolves to, after the NaN sanitising
\* round trip: the shape of the parsed value and, when it has a dhlabids
\* field, the records that field holds.
\*   "array"   { dhlabids: [...] }
\*   "map"     { dhlabids: { key: record, ... } }   (not an array)
\*   "nofield" an object without a dhlabids field
\*   "null"    the JSON value null
Payloads ==
    { [shape |-> "array", dhlabids |-> Corpus],
      [shape |-> "array", dhlabids |-> <<>>],
      [shape |-> "map", dhlabids |-> Corpus],
      [shape |-> "nofield", dhlabids |-> <<>>],
      [shape |-> "null", dhlabids |-> <<>>] }

\* Message of the error a rejected corpus fetch raises (a body that is not
\* JSON takes the same path with another message).
LoadErrors == {"Failed to fetch"}

\* HasMetadataArray testing sanitizedData.dhlabids for truthiness only
HasDhlabids(data) == data.shape \in {"array", "map"}

\* Array.isArray(sanitizedData.dhlabids), guarded by sanitizedData &&
HasMetadataArray(data) == data.shape = "array"

(***************************************************************************)
(* Unique authors: Array.from(new Set(map(author).filter(!!))).sort()      *)
(***************************************************************************)
\* The author names of the model in the order of String comparison by
\* UTF-16 code units, which is what Array.prototype.sort uses by default.
AuthorOrder == <<"Aasen", "Bjornson", "Collett">>

AuthorRank(a) == CHOOSE i \in 1..Len(AuthorOrder) : AuthorOrder[i] = a

\* .map(item => item.author).filter(author => !!author)
RECURSIVE NonEmptyAuthors(_)
NonEmptyAuthors(recs) ==
    IF recs = <<>> THEN <<>>
    ELSE IF Head(recs).author # "" THEN <<Head(recs).author>> \o NonEmptyAuthors(Tail(recs))
    ELSE NonEmptyAuthors(Tail(recs))

\* new Set(array) keeps the first occurrence of each value, in order
RECURSIVE Dedup(_)
Dedup(s) ==
    IF s = <<>> THEN <<>>
    ELSE LET front == Dedup(SubSeq(s, 1, Len(s) - 1))
             last == s[Len(s)]
         IN IF Includes(front, last) THEN front ELSE Append(front, last)

\* insert a into the sorted sequence s
RECURSIVE InsertSorted(_, _)
InsertSorted(s, a) ==
    IF s = <<>> THEN <<a>>
    ELSE IF AuthorRank(a) < AuthorRank(Head(s)) THEN <<a>> \o s
    ELSE <<Head(s)>> \o InsertSorted(Tail(s), a)

\* Array.prototype.sort with the default comparison
RECURSIVE SortAuthors(_)
SortAuthors(s) ==
    IF s = <<>> THEN <<>>
    ELSE InsertSorted(SortAuthors(Tail(s)), Head(s))

\* UniqueAuthorsOf without the .sort() call
UniqueAuthorsUnsorted(recs) == Dedup(NonEmptyAuthors(recs))

UniqueAuthorsOf(recs) == SortAuthors(Dedup(NonEmptyAuthors(recs)))

(***************************************************************************)
(* Filter and request builder (performSearch, up to the fetch).            *)
(***************************************************************************)
\* ParseInt that reads every string that is not a whole number as 0
ParseIntOrZero(str) ==
    CASE str = "1814"  -> [nan |-> FALSE, n |-> 1814]
      [] str = "1857"  -> [nan |-> FALSE, n |-> 1857]
      [] str = "1905"  -> [nan |-> FALSE, n |-> 1905]
      [] OTHER         -> [nan |-> FALSE, n |-> 0]

\* parseInt on the year strings of the model: nan marks NaN, n is the
\* parsed integer otherwise.  parseInt reads the leading digits of the
\* string and stops at the first other character: "1857?" parses to 1857.
\* "0" is what item.year || '0' passes for a missing year; "abc" has no
\* leading digits and parses to NaN.
ParseInt(str) ==
    CASE str = "0"     -> [nan |-> FALSE, n |-> 0]
      [] str = "1814"  -> [nan |-> FALSE, n |-> 1814]
      [] str = "1857"  -> [nan |-> FALSE, n |-> 1857]
      [] str = "1857?" -> [nan |-> FALSE, n |-> 1857]
      [] str = "1905"  -> [nan |-> FALSE, n |-> 1905]
      [] OTHER         -> [nan |-> TRUE, n |-> 0]

\* selectedCategories.includes('All Categories') ||
\*   (item.category && selectedCategories.includes(item.category))
CategoryMatch(item, categories) ==
    \/ Includes(categories, "All Categories")
    \/ (item.category # "" /\ Includes(categories, item.category))

\* AuthorMatch without the selectedAuthors.length === 0 alternative
AuthorMatchSelectedOnly(item, authors) ==
    item.author # "" /\ Includes(authors, item.author)

\* selectedAuthors.length === 0 ||
\*   (item.author && selectedAuthors.includes(item.author))
AuthorMatch(item, authors) ==
    \/ Len(authors) = 0
    \/ (item.author # "" /\ Includes(authors, item.author))

\* YearMatch with year < yearRange[1] as the upper comparison
YearMatchBelowMax(item, range) ==
    LET year == ParseInt(IF item.year # "" THEN item.year ELSE "0")
    IN ~year.nan /\ year.n >= range[1] /\ year.n < range[2]

\* year >= yearRange[0] && year <= yearRange[1]; every comparison with NaN
\* is false
YearMatch(item, range) ==
    LET year == ParseInt(IF item.year # "" THEN item.year ELSE "0")
    IN ~year.nan /\ year.n >= range[1] /\ year.n <= range[2]

\* metadataArray.filter(item => categoryMatch && authorMatch && yearMatch)
RECURSIVE FilteredMetadata(_, _, _, _)
FilteredMetadata(recs, categories, authors, range) ==
    IF recs = <<>> THEN <<>>
    ELSE LET item == Head(recs)
             rest == FilteredMetadata(Tail(recs), categories, authors, range)
         IN IF CategoryMatch(item, categories) /\ AuthorMatch(item, authors)
               /\ YearMatch(item, range)
            THEN <<item>> \o rest ELSE rest

\* filteredMetadata.map(item => item.urn)
UrnsToUse(recs) == [i \in 1..Len(recs) |-> recs[i].urn]

\* ConcBody without the request for inline highlighting
ConcBodyUnformatted(recs, q, categories, authors, range) ==
    [urns |-> UrnsToUse(FilteredMetadata(recs, categories, authors, range)),
     query |-> q, limit |-> LIMIT, window |-> WINDOW, html_formatting |-> FALSE]

\* const concBody = { urns, query, limit, window, html_formatting }
ConcBody(recs, q, categories, authors, range) ==
    [urns |-> UrnsToUse(FilteredMetadata(recs, categories, authors, range)),
     query |-> q, limit |-> LIMIT, window |-> WINDOW, html_formatting |-> TRUE]

(***************************************************************************)
(* Result mapper (performSearch, after the response body is parsed).       *)
(***************************************************************************)
\* A highlighted text is a sequence of tokens: the tags "<b>" and "</b>"
\* and the pieces of plain text between them.
OpenTag == "<b>"
CloseTag == "</b>"

\* index of the first occurrence of tok in text at or after from, 0 if none
RECURSIVE IndexFrom(_, _, _)
IndexFrom(text, tok, from) ==
    IF from > Len(text) THEN 0
    ELSE IF text[from] = tok THEN from
    ELSE IndexFrom(text, tok, from + 1)

\* BoldTermsFrom without the g flag: text.match(/<b>(.*?)<\/b>/), the first
\* match only
BoldTermsFirstOnly(text, from) ==
    LET open == IndexFrom(text, OpenTag, from)
        close == IF open = 0 THEN 0 ELSE IndexFrom(text, CloseTag, open + 1)
    IN IF open = 0 \/ close = 0 THEN <<>>
       ELSE <<SubSeq(text, open + 1, close - 1)>>

\* Array.from(text.matchAll(/<b>(.*?)<\/b>/g)).map(match => match[1]):
\* from the leftmost "<b>", the shortest stretch up to the next "</b>" is
\* one match; the search resumes after it.  The texts of the model hold no
\* line terminator, the one character "." does not match.
RECURSIVE BoldTermsFrom(_, _)
BoldTermsFrom(text, from) ==
    LET open == IndexFrom(text, OpenTag, from)
        close == IF open = 0 THEN 0 ELSE IndexFrom(text, CloseTag, open + 1)
    IN IF open = 0 \/ close = 0 THEN <<>>
       ELSE <<SubSeq(text, open + 1, close - 1)>> \o BoldTermsFrom(text, close + 1)

BoldTerms(text) == BoldTermsFrom(text, 1)

\* encodeURIComponent on the pieces of text of the model; tags and blanks
\* are escaped, words of unreserved characters are kept.
EncodeToken(tok) ==
    CASE tok = " "   -> "%20"
      [] tok = "<b>" -> "%3Cb%3E"
      [] tok = "</b>" -> "%3C%2Fb%3E"
      [] tok = "before " -> "before%20"
      [] tok = " after" -> "%20after"
      [] OTHER -> tok

RECURSIVE EncodeTokens(_)
EncodeTokens(toks) ==
    IF toks = <<>> THEN "" ELSE EncodeToken(Head(toks)) \o EncodeTokens(Tail(toks))

\* encodeURIComponent(boldTerms.join(" "))
RECURSIVE EncodeJoined(_)
EncodeJoined(terms) ==
    IF terms = <<>> THEN ""
    ELSE IF Len(terms) = 1 THEN EncodeTokens(terms[1])
    ELSE EncodeTokens(terms[1]) \o EncodeToken(" ") \o EncodeJoined(Tail(terms))

\* UrnLink with encodeURIComponent applied to the whole highlighted text
\* instead of the joined bold terms
UrnLinkOfWholeText(urn, text) ==
    "https://www.nb.no/items/" \o urn \o "?searchText=\""
    \o EncodeTokens(text) \o "\"~" \o ToString(Len(BoldTerms(text)))

\* `https://www.nb.no/items/${urn}?searchText="${encoded}"~${tokenCount}`
UrnLink(urn, text) ==
    LET boldTerms == BoldTerms(text)
        tokenCount == Len(boldTerms)
    IN "https://www.nb.no/items/" \o urn \o "?searchText=\""
       \o EncodeJoined(boldTerms) \o "\"~" \o ToString(tokenCount)

\* metadataArray.find(item => item.urn === urn): <<>> is undefined,
\* <<record>> the first record with that urn
RECURSIVE FindMetadata(_, _)
FindMetadata(recs, urn) ==
    IF recs = <<>> THEN <<>>
    ELSE IF Head(recs).urn = urn THEN <<Head(recs)>>
    ELSE FindMetadata(Tail(recs), urn)

\* One rendered concordance <div>: its text, its data-urn, and the
\* arguments its onClick passes to handleConcordanceClick.
RenderHit(recs, hit) ==
    [text |-> hit.text, urn |-> hit.urn,
     metadata |-> FindMetadata(recs, hit.urn),
     link |-> UrnLink(hit.urn, hit.text)]

\* Object.keys(conc.conc).map((key, index) => <div .../>)
NewResults(recs, hits) == [i \in 1..Len(hits) |-> RenderHit(recs, hits[i])]

(***************************************************************************)
(* Inputs of the model.                                                    *)
(***************************************************************************)
\* texts typed into the query field
Queries == {"", "Norge"}

\* positions of the two year sliders
YearChoices == {MIN_YEAR, MAX_YEAR}

\* HTTP status of a response that is not ok, and the body texts it carries
ErrorStatuses == {500}
ErrorTexts == {"Internal Server Error"}

\* messages of the errors a rejected promise carries
NetworkErrors == {"Failed to fetch"}
JsonErrors == {"Unexpected end of JSON input"}

\* messages of the TypeErrors the engine raises
NullConcError == "Cannot read properties of null (reading 'conc')"
KeysOfUndefinedError == "Cannot convert undefined or null to object"

HitKnown == [text |-> <<"before ", "<b>", "Norge", "</b>", " after">>, urn |-> "URN:2"]
HitUnknown == [text |-> <<"<b>", "Norge", "</b>", " og ", "<b>", "fjord", "</b>">>, urn |-> "URN:9"]

\* What concResp.json() resolves to: the shape of the parsed value and the
\* entries of its conc and urn maps in key order.
\*   "conc"   { conc: {...}, urn: {...} }
\*   "noconc" an object without a conc field
\*   "null"   the JSON value null
ApiBodies ==
    { [shape |-> "conc", hits |-> <<HitKnown, HitUnknown>>],
      [shape |-> "conc", hits |-> <<>>],
      [shape |-> "noconc", hits |-> <<>>],
      [shape |-> "null", hits |-> <<>>] }

(***************************************************************************)
(* State.                                                                  *)
(***************************************************************************)
VARIABLES
    loadPending,        \* the corpus fetch of the mount effect has not settled
    corpusData,         \* what the corpus fetch settled with
    metadataArray,      \* useState<Metadata[]>([])
    uniqueAuthors,      \* useState<string[]>([])
    query,              \* useState('')
    selectedCategories, \* useState(['All Categories'])
    selectedAuthors,    \* useState<string[]>([])
    authorSearch,       \* useState('')
    yearRange,          \* useState([MIN_YEAR, MAX_YEAR])
    status,             \* useState('Loading corpus data...')
    results,            \* useState<React.ReactNode>(null)
    isLoading,          \* useState(false)
    showModal,          \* useState(false)
    showFilterModal,    \* useState(false)
    modalData,          \* useState<ModalData | null>(null): <<>> is null
    calls,              \* the calls of performSearch suspended at an await
    nSearches,          \* calls of performSearch that passed validation
    nRequests,          \* requests sent to the search API
    alert,              \* text of the alert() prompt on display: "" is none
    nEdits,             \* filter changes made
    lastClick           \* the concordance <div> clicked last: <<>> is none

vars == <<loadPending, corpusData, metadataArray, uniqueAuthors, query, selectedCategories,
          selectedAuthors, authorSearch, yearRange, status, results, isLoading,
          showModal, showFilterModal, modalData, calls, nSearches, nRequests,
          alert, nEdits, lastClick>>

\* the state of the filter modal's controls
filterVars == <<selectedCategories, selectedAuthors, authorSearch, yearRange>>
\* the state of the details modal
modalVars == <<showModal, modalData, lastClick>>
\* the state the corpus load writes
storeVars == <<loadPending, corpusData, metadataArray, uniqueAuthors>>
\* the bookkeeping of prompts and requests
countVars == <<nSearches, nRequests, alert>>

\* values of the results state
ResultsNull == [kind |-> "null", msg |-> "", hits |-> <<>>]
ResultsNone == [kind |-> "no-results", msg |-> "No results found for this query.", hits |-> <<>>]
ResultsError(message) == [kind |-> "error", msg |-> "Search failed: " \o message, hits |-> <<>>]
ResultsHits(divs) == [kind |-> "hits", msg |-> "", hits |-> divs]

\* corpusData before the fetch settles, and after it was rejected
NoData == [shape |-> "pending", dhlabids |-> <<>>]
RejectedData == [shape |-> "rejected", dhlabids |-> <<>>]

Init ==
    /\ loadPending = TRUE
    /\ corpusData = NoData
    /\ metadataArray = <<>>
    /\ uniqueAuthors = <<>>
    /\ query = ""
    /\ selectedCategories = <<"All Categories">>
    /\ selectedAuthors = <<>>
    /\ authorSearch = ""
    /\ yearRange = <<MIN_YEAR, MAX_YEAR>>
    /\ status = "Loading corpus data..."
    /\ results = ResultsNull
    /\ isLoading = FALSE
    /\ showModal = FALSE
    /\ showFilterModal = FALSE
    /\ modalData = <<>>
    /\ calls = <<>>
    /\ nSearches = 0
    /\ nRequests = 0
    /\ alert = ""
    /\ nEdits = 0
    /\ lastClick = <<>>

(***************************************************************************)
(* Corpus load (the mount effect).                                         *)
(***************************************************************************)
\* .then(data => ...): the body parsed as JSON
CorpusLoaded(data) ==
    /\ loadPending
    /\ loadPending' = FALSE
    /\ corpusData' = data
    /\ IF HasMetadataArray(data)
       THEN /\ metadataArray' = data.dhlabids
            /\ uniqueAuthors' = UniqueAuthorsOf(data.dhlabids)
            /\ status' = "Loaded metadata for " \o ToString(Len(data.dhlabids))
                         \o " documents."
       ELSE /\ status' = "Error: No valid metadata array found in JSON."
            /\ UNCHANGED <<metadataArray, uniqueAuthors>>
    /\ UNCHANGED <<query, filterVars, results, isLoading, modalVars,
                   showFilterModal, calls, countVars, nEdits>>

\* .catch(err => ...): the fetch was rejected or the body is not JSON
CorpusLoadFailed(message) ==
    /\ loadPending
    /\ loadPending' = FALSE
    /\ corpusData' = RejectedData
    /\ status' = "Error loading metadata: " \o message
    /\ UNCHANGED <<metadataArray, uniqueAuthors, query, filterVars, results,
                   isLoading, modalVars, showFilterModal, calls, countVars,
                   nEdits>>

(***************************************************************************)
(* performSearch.                                                          *)
(***************************************************************************)
\* the calls of performSearch that are suspended at an await
InFlight == DOMAIN calls

\* the function f without the argument id
Without(f, id) == [i \in (DOMAIN f) \ {id} |-> f[i]]

\* the function f with the argument id mapped to v
With(f, id, v) == [i \in (DOMAIN f) \cup {id} |-> IF i = id THEN v ELSE f[i]]

\* RejectSearch that also writes the message to the status line
RejectSearchWithStatus(message) ==
    /\ alert' = message
    /\ status' = message
    /\ UNCHANGED <<loadPending, corpusData, metadataArray, uniqueAuthors, query,
                   selectedCategories, selectedAuthors, authorSearch, yearRange,
                   results, isLoading, showModal, modalData, lastClick,
                   showFilterModal, calls, nSearches, nRequests, nEdits>>

\* alert(message); return;  The prompt blocks the page's event loop until it
\* is dismissed: no handler and no continuation runs while it is displayed.
RejectSearch(message) ==
    /\ alert' = message
    /\ UNCHANGED <<storeVars, query, filterVars, status, results, isLoading,
                   modalVars, showFilterModal, calls, nSearches, nRequests,
                   nEdits>>

\* the user dismisses the prompt and alert() returns
DismissAlert ==
    /\ alert # ""
    /\ alert' = ""
    /\ UNCHANGED <<storeVars, query, filterVars, status, results, isLoading,
                   modalVars, showFilterModal, calls, nSearches, nRequests,
                   nEdits>>

\* StartSearch that keeps the filtered records as the new store
StartSearchNarrowing ==
    /\ nSearches < MaxSearches
    /\ isLoading' = TRUE
    /\ status' = "Searching..."
    /\ results' = [kind |-> "null", msg |-> "", hits |-> <<>>]
    /\ nSearches' = nSearches + 1
    /\ nRequests' = nRequests + 1
    /\ metadataArray' = FilteredMetadata(metadataArray, selectedCategories,
                                          selectedAuthors, yearRange)
    /\ calls' = [i \in (DOMAIN calls) \cup {nSearches + 1} |->
                   IF i = nSearches + 1
                   THEN [pc |-> "fetch",
                         query |-> query,
                         selectedCategories |-> selectedCategories,
                         selectedAuthors |-> selectedAuthors,
                         yearRange |-> yearRange,
                         metadataArray |-> metadataArray,
                         concBody |-> ConcBody(metadataArray, query, selectedCategories,
                                               selectedAuthors, yearRange),
                         httpStatus |-> 200]
                   ELSE calls[i]]
    /\ UNCHANGED <<loadPending, corpusData, uniqueAuthors, query,
                   selectedCategories, selectedAuthors, authorSearch, yearRange,
                   showModal, modalData, lastClick, showFilterModal, alert,
                   nEdits>>

\* StartSearch without setResults(null)
StartSearchKeepingResults ==
    /\ nSearches < MaxSearches
    /\ isLoading' = TRUE
    /\ status' = "Searching..."
    /\ nSearches' = nSearches + 1
    /\ nRequests' = nRequests + 1
    /\ calls' = [i \in (DOMAIN calls) \cup {nSearches + 1} |->
                   IF i = nSearches + 1
                   THEN [pc |-> "fetch",
                         query |-> query,
                         selectedCategories |-> selectedCategories,
                         selectedAuthors |-> selectedAuthors,
                         yearRange |-> yearRange,
                         metadataArray |-> metadataArray,
                         concBody |-> ConcBody(metadataArray, query, selectedCategories,
                                               selectedAuthors, yearRange),
                         httpStatus |-> 200]
                   ELSE calls[i]]
    /\ UNCHANGED <<loadPending, corpusData, metadataArray, uniqueAuthors, query,
                   selectedCategories, selectedAuthors, authorSearch, yearRange,
                   results, showModal, modalData, lastClick, showFilterModal,
                   alert, nEdits>>

\* setIsLoading(true) ... await fetch(...): the state the call closes over
\* (query, filters and store of the render it was called from), the body of
\* the request it sent, and the await it is suspended at
StartSearch ==
    /\ nSearches < MaxSearches
    /\ isLoading' = TRUE
    /\ status' = "Searching..."
    /\ results' = ResultsNull
    /\ nSearches' = nSearches + 1
    /\ nRequests' = nRequests + 1
    /\ calls' = With(calls, nSearches + 1,
                     [pc |-> "fetch",
                      query |-> query,
                      selectedCategories |-> selectedCategories,
                      selectedAuthors |-> selectedAuthors,
                      yearRange |-> yearRange,
                      metadataArray |-> metadataArray,
                      concBody |-> ConcBody(metadataArray, query, selectedCategories,
                                            selectedAuthors, yearRange),
                      httpStatus |-> 200])
    /\ UNCHANGED <<storeVars, query, filterVars, modalVars, showFilterModal,
                   alert, nEdits>>

\* PerformSearch without the check metadataArray.length === 0
PerformSearchOfAnyStore ==
    IF query = "" THEN RejectSearch("Please enter a search term")
    ELSE StartSearch

\* const performSearch = async () => { ... } up to its first await
PerformSearch ==
    IF query = "" THEN RejectSearch("Please enter a search term")
    ELSE IF Len(metadataArray) = 0
         THEN RejectSearch("Metadata not loaded yet. Please try again.")
         ELSE StartSearch

\* onKeyPress={(e) => e.key === 'Enter' && performSearch()}
EnterKey == PerformSearch

\* <button onClick={performSearch} disabled={isLoading}>
SearchClick ==
    /\ ~isLoading
    /\ PerformSearch

\* onChange={(e) => setQuery(e.target.value)}
SetQuery(value) ==
    /\ value # query
    /\ query' = value
    /\ UNCHANGED <<storeVars, filterVars, status, results, isLoading, modalVars,
                   showFilterModal, calls, countVars, nEdits>>

\* CatchFinally with setIsLoading(false) moved from the finally block to the
\* end of the try block, where a failed search never reaches it
CatchWithoutFinally(id, message) ==
    /\ status' = "Error: " \o message
    /\ results' = [kind |-> "error", msg |-> "Search failed: " \o message, hits |-> <<>>]
    /\ calls' = [i \in (DOMAIN calls) \ {id} |-> calls[i]]
    /\ UNCHANGED <<loadPending, corpusData, metadataArray, uniqueAuthors, query,
                   selectedCategories, selectedAuthors, authorSearch, yearRange,
                   isLoading, showModal, modalData, lastClick, showFilterModal,
                   nSearches, nRequests, alert, nEdits>>

\* CatchFinally that sends the request once more after the first failure
CatchAndRetry(id, message) ==
    /\ status' = "Error: " \o message
    /\ results' = [kind |-> "error", msg |-> "Search failed: " \o message, hits |-> <<>>]
    /\ IF nRequests = nSearches
       THEN /\ calls' = [calls EXCEPT ![id].pc = "fetch"]
            /\ nRequests' = nRequests + 1
            /\ UNCHANGED isLoading
       ELSE /\ calls' = [i \in (DOMAIN calls) \ {id} |-> calls[i]]
            /\ isLoading' = FALSE
            /\ UNCHANGED nRequests
    /\ UNCHANGED <<loadPending, corpusData, metadataArray, uniqueAuthors, query,
                   selectedCategories, selectedAuthors, authorSearch, yearRange,
                   showModal, modalData, lastClick, showFilterModal, nSearches,
                   alert, nEdits>>

\* CatchFinally without the setResults call of the catch block
CatchKeepsResults(id, message) ==
    /\ status' = "Error: " \o message
    /\ isLoading' = FALSE
    /\ calls' = [i \in (DOMAIN calls) \ {id} |-> calls[i]]
    /\ UNCHANGED <<loadPending, corpusData, metadataArray, uniqueAuthors, query,
                   selectedCategories, selectedAuthors, authorSearch, yearRange,
                   results, showModal, modalData, lastClick, showFilterModal,
                   nSearches, nRequests, alert, nEdits>>

\* catch (error) { setStatus; setResults } finally { setIsLoading(false) }
CatchFinally(id, message) ==
    /\ status' = "Error: " \o message
    /\ results' = ResultsError(message)
    /\ isLoading' = FALSE
    /\ calls' = Without(calls, id)
    /\ UNCHANGED <<storeVars, query, filterVars, modalVars, showFilterModal,
                   countVars, nEdits>>

\* await fetch(...) rejects: the request failed on the network
FetchRejected(id, message) ==
    /\ id \in InFlight
    /\ calls[id].pc = "fetch"
    /\ CatchFinally(id, message)

\* await fetch(...) resolves with a response: ok goes on to read the body
\* as JSON, not ok goes on to read it as text
FetchResponded(id, ok, httpStatus) ==
    /\ id \in InFlight
    /\ calls[id].pc = "fetch"
    /\ calls' = [calls EXCEPT ![id].pc = IF ok THEN "json" ELSE "text",
                              ![id].httpStatus = httpStatus]
    /\ UNCHANGED <<storeVars, query, filterVars, status, results, isLoading,
                   modalVars, showFilterModal, countVars, nEdits>>

\* await concResp.text() resolves:
\* throw new Error(`HTTP error ${concResp.status}: ${errorText}`)
TextResolved(id, errorText) ==
    /\ id \in InFlight
    /\ calls[id].pc = "text"
    /\ CatchFinally(id, "HTTP error " \o ToString(calls[id].httpStatus)
                        \o ": " \o errorText)

\* await concResp.text() or await concResp.json() rejects: the connection
\* broke while the body was read or, for json(), the body is not JSON
BodyRejected(id, message) ==
    /\ id \in InFlight
    /\ calls[id].pc \in {"text", "json"}
    /\ calls[id].pc = "text" => message \in NetworkErrors
    /\ CatchFinally(id, message)

\* the three tails of the status line
CategoryText(categories) ==
    IF Includes(categories, "All Categories") THEN ""
    ELSE " in categories: " \o Join(categories, ", ")

AuthorText(authors) ==
    IF Len(authors) > 0 THEN " by authors: " \o Join(authors, ", ") ELSE ""

YearText(range) ==
    IF range[1] = MIN_YEAR /\ range[2] = MAX_YEAR THEN ""
    ELSE " from " \o ToString(range[1]) \o " to " \o ToString(range[2])

\* `Found ${n} results for "${query}"${categoryText}${authorText}${yearText}`
FoundStatus(n, call) ==
    "Found " \o ToString(n) \o " results for \"" \o call.query \o "\""
    \o CategoryText(call.selectedCategories) \o AuthorText(call.selectedAuthors)
    \o YearText(call.yearRange)

\* SuccessFinally that drops the response of a search that is not the one
\* triggered last, and keeps the busy flag while another call is in flight
SuccessFinallyOfLatest(id, newStatus, newResults) ==
    /\ status' = IF id = nSearches THEN newStatus ELSE status
    /\ results' = IF id = nSearches THEN newResults ELSE results
    /\ isLoading' = (InFlight # {id})
    /\ calls' = [i \in (DOMAIN calls) \ {id} |-> calls[i]]
    /\ UNCHANGED <<loadPending, corpusData, metadataArray, uniqueAuthors, query,
                   selectedCategories, selectedAuthors, authorSearch, yearRange,
                   showModal, modalData, lastClick, showFilterModal, nSearches,
                   nRequests, alert, nEdits>>

\* the try block ran to its end or to its return: finally { ... }
SuccessFinally(id, newStatus, newResults) ==
    /\ status' = newStatus
    /\ results' = newResults
    /\ isLoading' = FALSE
    /\ calls' = Without(calls, id)
    /\ UNCHANGED <<storeVars, query, filterVars, modalVars, showFilterModal,
                   countVars, nEdits>>

\* await concResp.json() resolves with the parsed body.  Reading conc.conc
\* of null and Object.keys of an absent conc.conc throw a TypeError inside
\* the try block.
JsonResolved(id, body) ==
    /\ id \in InFlight
    /\ calls[id].pc = "json"
    /\ IF body.shape = "null" THEN CatchFinally(id, NullConcError)
       ELSE IF body.shape = "noconc" THEN CatchFinally(id, KeysOfUndefinedError)
       ELSE IF Len(body.hits) = 0
            THEN SuccessFinally(id, FoundStatus(0, calls[id]), ResultsNone)
            ELSE SuccessFinally(id, FoundStatus(Len(body.hits), calls[id]),
                     ResultsHits(NewResults(calls[id].metadataArray, body.hits)))

(***************************************************************************)
(* Details modal.                                                          *)
(***************************************************************************)
\* setModalData({ title: metadata.title || "Unknown Title", ... })
ModalDataOf(metadata, link) ==
    [title |-> IF metadata.title # "" THEN metadata.title ELSE "Unknown Title",
     author |-> IF metadata.author # "" THEN metadata.author ELSE "Unknown Author",
     year |-> IF metadata.year # "" THEN metadata.year ELSE "Unknown Year",
     category |-> IF metadata.category # "" THEN metadata.category
                  ELSE "Unknown Category",
     link |-> link]

\* handleConcordanceClick(metadata, link): if (metadata) { ... }
HandleConcordanceClick(metadata, link) ==
    IF metadata # <<>>
    THEN /\ modalData' = <<ModalDataOf(metadata[1], link)>>
         /\ showModal' = TRUE
    ELSE UNCHANGED <<modalData, showModal>>

\* onClick={() => handleConcordanceClick(metadata, urnLink)} of the i-th
\* rendered concordance
ConcordanceClick(i) ==
    /\ results.kind = "hits"
    /\ i \in 1..Len(results.hits)
    /\ lastClick' = <<results.hits[i]>>
    /\ HandleConcordanceClick(results.hits[i].metadata, results.hits[i].link)
    /\ UNCHANGED <<storeVars, query, filterVars, status, results, isLoading,
                   showFilterModal, calls, countVars, nEdits>>

\* onClick={() => setShowModal(false)} of the modal's two close buttons
CloseModal ==
    /\ showModal
    /\ showModal' = FALSE
    /\ UNCHANGED <<storeVars, query, filterVars, status, results, isLoading,
                   modalData, lastClick, showFilterModal, calls, countVars,
                   nEdits>>

(***************************************************************************)
(* Filter modal.                                                           *)
(***************************************************************************)
\* onClick={() => setShowFilterModal(true)}
OpenFilterModal ==
    /\ ~showFilterModal
    /\ showFilterModal' = TRUE
    /\ UNCHANGED <<storeVars, query, filterVars, status, results, isLoading,
                   modalVars, calls, countVars, nEdits>>

\* onClick={() => setShowFilterModal(false)}
CloseFilterModal ==
    /\ showFilterModal
    /\ showFilterModal' = FALSE
    /\ UNCHANGED <<storeVars, query, filterVars, status, results, isLoading,
                   modalVars, calls, countVars, nEdits>>

\* the controls of the filter modal are displayed and one more change fits
\* the bound
FilterEdit ==
    /\ showFilterModal
    /\ nEdits < MaxFilterEdits
    /\ nEdits' = nEdits + 1
    /\ UNCHANGED <<storeVars, query, status, results, isLoading, modalVars,
                   showFilterModal, calls, countVars>>

\* texts typed into the author search field
AuthorSearchTexts == {"", "n"}

\* author.toLowerCase().includes(authorSearch.toLowerCase()) on the names
\* and the texts of the model
SearchMatches(author, text) ==
    \/ text = ""
    \/ text = "n" /\ author \in {"Aasen", "Bjornson"}
    \/ text = "e" /\ author \in {"Aasen", "Collett"}

RECURSIVE MatchingAuthors(_, _)
MatchingAuthors(authors, text) ==
    IF authors = <<>> THEN <<>>
    ELSE IF SearchMatches(Head(authors), text)
         THEN <<Head(authors)>> \o MatchingAuthors(Tail(authors), text)
         ELSE MatchingAuthors(Tail(authors), text)

\* uniqueAuthors.filter(...).slice(0, 10)
SUGGESTIONS == 10
FilteredAuthors ==
    LET matching == MatchingAuthors(uniqueAuthors, authorSearch)
    IN SubSeq(matching, 1, IF Len(matching) < SUGGESTIONS THEN Len(matching)
                           ELSE SUGGESTIONS)

\* handleAuthorSearch: setAuthorSearch(e.target.value)
HandleAuthorSearch(text) ==
    /\ showFilterModal
    /\ text # authorSearch
    /\ authorSearch' = text
    /\ UNCHANGED <<storeVars, query, selectedCategories, selectedAuthors,
                   yearRange, status, results, isLoading, modalVars,
                   showFilterModal, calls, countVars, nEdits>>

\* HandleAuthorSelect without the test !selectedAuthors.includes(author)
HandleAuthorSelectAgain(author) ==
    /\ FilterEdit
    /\ authorSearch # ""
    /\ Includes(FilteredAuthors, author)
    /\ selectedAuthors' = Append(selectedAuthors, author)
    /\ authorSearch' = ""
    /\ UNCHANGED <<selectedCategories, yearRange>>

\* handleAuthorSelect(author), from a button of the suggestion list, which
\* is rendered when authorSearch && filteredAuthors.length > 0
HandleAuthorSelect(author) ==
    /\ FilterEdit
    /\ authorSearch # ""
    /\ Includes(FilteredAuthors, author)
    /\ selectedAuthors' = IF ~Includes(selectedAuthors, author)
                          THEN Append(selectedAuthors, author)
                          ELSE selectedAuthors
    /\ authorSearch' = ""
    /\ UNCHANGED <<selectedCategories, yearRange>>

\* handleAuthorRemove(authorToRemove), from the close button of a badge
HandleAuthorRemove(authorToRemove) ==
    /\ FilterEdit
    /\ Includes(selectedAuthors, authorToRemove)
    /\ selectedAuthors' = FilterSeq(selectedAuthors,
                                    Range(selectedAuthors) \ {authorToRemove})
    /\ UNCHANGED <<selectedCategories, authorSearch, yearRange>>

\* HandleCategoryChange without the test for 'All Categories'
HandleCategoryChangeAsSelected(selected) ==
    /\ FilterEdit
    /\ selectedCategories' = FilterSeq(CATEGORIES, selected)
    /\ UNCHANGED <<selectedAuthors, authorSearch, yearRange>>

\* handleCategoryChange: selectedValues are the selected options in the
\* order of the options
HandleCategoryChange(selected) ==
    /\ FilterEdit
    /\ LET selectedValues == FilterSeq(CATEGORIES, selected)
       IN selectedCategories' = IF Includes(selectedValues, "All Categories")
                                THEN <<"All Categories">>
                                ELSE selectedValues
    /\ UNCHANGED <<selectedAuthors, authorSearch, yearRange>>

\* HandleYearRangeChange keeping minYear <= maxYear: a bound moved past the
\* other takes the other along
HandleYearRangeChangeOrdered(name, value) ==
    /\ FilterEdit
    /\ yearRange' = IF name = "minYear"
                    THEN <<value, IF value > yearRange[2] THEN value ELSE yearRange[2]>>
                    ELSE <<IF value < yearRange[1] THEN value ELSE yearRange[1], value>>
    /\ UNCHANGED <<selectedCategories, selectedAuthors, authorSearch>>

\* handleYearRangeChange: e.target.name is minYear or maxYear
HandleYearRangeChange(name, value) ==
    /\ FilterEdit
    /\ yearRange' = IF name = "minYear" THEN <<value, yearRange[2]>>
                    ELSE <<yearRange[1], value>>
    /\ UNCHANGED <<selectedCategories, selectedAuthors, authorSearch>>

(***************************************************************************)
(* Specification.                                                          *)
(***************************************************************************)
SearchIds == 1..MaxSearches

\* the event loop is free: no alert() prompt is on display
Running == alert = ""

Next ==
    \/ Running /\ \E data \in Payloads : CorpusLoaded(data)
    \/ Running /\ \E message \in LoadErrors : CorpusLoadFailed(message)
    \/ Running /\ \E value \in Queries : SetQuery(value)
    \/ Running /\ EnterKey
    \/ Running /\ SearchClick
    \/ Running /\ \E id \in SearchIds, message \in NetworkErrors : FetchRejected(id, message)
    \/ Running /\ \E id \in SearchIds : FetchResponded(id, TRUE, 200)
    \/ Running /\ \E id \in SearchIds, st \in ErrorStatuses : FetchResponded(id, FALSE, st)
    \/ Running /\ \E id \in SearchIds, errorText \in ErrorTexts : TextResolved(id, errorText)
    \/ Running /\ \E id \in SearchIds, message \in NetworkErrors \cup JsonErrors :
                     BodyRejected(id, message)
    \/ Running /\ \E id \in SearchIds, body \in ApiBodies : JsonResolved(id, body)
    \/ Running /\ \E i \in 1..Len(results.hits) : ConcordanceClick(i)
    \/ Running /\ CloseModal
    \/ Running /\ OpenFilterModal
    \/ Running /\ CloseFilterModal
    \/ Running /\ \E text \in AuthorSearchTexts : HandleAuthorSearch(text)
    \/ Running /\ \E author \in Range(uniqueAuthors) : HandleAuthorSelect(author)
    \/ Running /\ \E author \in Range(selectedAuthors) : HandleAuthorRemove(author)
    \/ Running /\ \E selected \in SUBSET Range(CATEGORIES) : HandleCategoryChange(selected)
    \/ Running /\ \E name \in {"minYear", "maxYear"}, value \in YearChoices :
                     HandleYearRangeChange(name, value)
    \/ DismissAlert

Spec == Init /\ [][Next]_vars

\* One step of the call id of performSearch after an await: the promise the
\* call is suspended at settles and its continuation runs.
Settle(id) ==
    \/ \E message \in NetworkErrors : FetchRejected(id, message)
    \/ FetchResponded(id, TRUE, 200)
    \/ \E st \in ErrorStatuses : FetchResponded(id, FALSE, st)
    \/ \E errorText \in ErrorTexts : TextResolved(id, errorText)
    \/ \E message \in NetworkErrors \cup JsonErrors : BodyRejected(id, message)
    \/ \E body \in ApiBodies : JsonResolved(id, body)

\* The network call of every search settles, and so does the read of the
\* response body.  The event loop runs a continuation that is ready as soon
\* as it is free: prompts that come and go delay a continuation but cannot
\* starve it (strong fairness).  The user answers a prompt on display.
FairSpec ==
    /\ Spec
    /\ \A id \in SearchIds : SF_vars(Running /\ Settle(id))
    /\ WF_vars(DismissAlert)

(***************************************************************************)
(* The script variant of the page that searches by dhlabids.  It keeps the *)
(* identifiers in dhlabidsArray (the variable metadataArray here), the     *)
(* status line in statusDiv.textContent (status), the content of the       *)
(* results element (results) and the tooltip appended to the document      *)
(* (showModal, modalData).  It has no busy flag, no filters and no         *)
(* details modal: the other variables keep their initial values.           *)
(***************************************************************************)
\* what res.json() of corpus.json resolves to in this variant: as Payloads,
\* and "scalar" for a dhlabids field that is neither array nor object
DhlabidsPayloads ==
    Payloads \cup {[shape |-> "scalar", dhlabids |-> <<>>]}

\* .then(data => ...): an array is kept, a map is kept as Object.values,
\* anything else is an error
DhlabidsCorpusLoaded(data) ==
    /\ loadPending
    /\ loadPending' = FALSE
    /\ corpusData' = data
    /\ IF data.shape = "array"
       THEN /\ metadataArray' = data.dhlabids
            /\ status' = "Loaded corpus with " \o ToString(Len(data.dhlabids))
                         \o " documents (array format)"
       ELSE IF data.shape = "map"
       THEN /\ metadataArray' = data.dhlabids
            /\ status' = "Loaded corpus with " \o ToString(Len(data.dhlabids))
                         \o " documents (object format)"
       ELSE IF data.shape = "scalar"
       THEN /\ status' = "Error: dhlabids has unexpected format"
            /\ UNCHANGED metadataArray
       ELSE /\ status' = "Error: No dhlabids found in JSON"
            /\ UNCHANGED metadataArray
    /\ UNCHANGED <<uniqueAuthors, query, filterVars, results, isLoading, modalVars,
                   showFilterModal, calls, countVars, nEdits>>

\* .catch(err => ...)
DhlabidsCorpusLoadFailed(message) ==
    /\ loadPending
    /\ loadPending' = FALSE
    /\ corpusData' = RejectedData
    /\ status' = "Error loading corpus: " \o message
    /\ UNCHANGED <<metadataArray, uniqueAuthors, query, filterVars, results,
                   isLoading, modalVars, showFilterModal, calls, countVars, nEdits>>

\* const concBody = { dhlabids: idsToUse, query, limit, window,
\* html_formatting }; idsToUse is the first 20000 identifiers, which are
\* all the identifiers of the model
DhlabidsConcBody(ids, q) ==
    [dhlabids |-> ids, query |-> q, limit |-> LIMIT, window |-> WINDOW,
     html_formatting |-> TRUE]

\* performSearch up to its first await; the click on searchBtn and the
\* Enter key in queryInput both call it
DhlabidsPerformSearch ==
    IF query = "" THEN RejectSearch("Please enter a search term")
    ELSE IF Len(metadataArray) = 0
    THEN RejectSearch("Corpus data not loaded yet. Please try again.")
    ELSE /\ nSearches < MaxSearches
         /\ status' = "Searching..."
         /\ results' = ResultsNull
         /\ nSearches' = nSearches + 1
         /\ nRequests' = nRequests + 1
         /\ calls' = With(calls, nSearches + 1,
                          [pc |-> "fetch",
                           query |-> query,
                           concBody |-> DhlabidsConcBody(metadataArray, query),
                           httpStatus |-> 200])
         /\ UNCHANGED <<storeVars, query, filterVars, isLoading, modalVars,
                        showFilterModal, alert, nEdits>>

\* catch (error) { statusDiv.textContent = ...; results.innerHTML = ... }
DhlabidsCatch(id, message) ==
    /\ status' = "Error: " \o message
    /\ results' = ResultsError(message)
    /\ calls' = Without(calls, id)
    /\ UNCHANGED <<storeVars, query, filterVars, isLoading, modalVars,
                   showFilterModal, countVars, nEdits>>

\* await fetch(...) rejects
DhlabidsFetchRejected(id, message) ==
    /\ id \in InFlight
    /\ calls[id].pc = "fetch"
    /\ DhlabidsCatch(id, message)

\* await fetch(...) resolves with a response of the given status and body
\* text: if (!concResp.ok) throw new Error(`HTTP error ${concResp.status}`)
\* without reading the body
DhlabidsFetchResponded(id, ok, httpStatus, bodyText) ==
    /\ id \in InFlight
    /\ calls[id].pc = "fetch"
    /\ IF ok
       THEN /\ calls' = [calls EXCEPT ![id].pc = "json", ![id].httpStatus = httpStatus]
            /\ UNCHANGED <<storeVars, query, filterVars, status, results, isLoading,
                           modalVars, showFilterModal, countVars, nEdits>>
       ELSE DhlabidsCatch(id, "HTTP error " \o ToString(httpStatus))

\* await concResp.json() rejects
DhlabidsJsonRejected(id, message) ==
    /\ id \in InFlight
    /\ calls[id].pc = "json"
    /\ DhlabidsCatch(id, message)

\* (text.match(/<b>(.*?)<\/b>/) || [])[1] || "": the tokens of the first
\* match, <<>> for none
FirstBoldTerm(text) ==
    LET open == IndexFrom(text, OpenTag, 1)
        close == IF open = 0 THEN 0 ELSE IndexFrom(text, CloseTag, open + 1)
    IN IF open = 0 \/ close = 0 THEN <<>>
       ELSE SubSeq(text, open + 1, close - 1)

\* One concordance <div> of this variant: its text, its data-urn and the
\* href of the anchor put around the first match ("" when there is none)
DhlabidsRenderHit(hit) ==
    LET searchText == FirstBoldTerm(hit.text)
    IN [text |-> hit.text, urn |-> hit.urn,
        link |-> IF searchText = <<>> THEN ""
                 ELSE "https://www.nb.no/items/" \o hit.urn \o "?searchText="
                      \o EncodeTokens(searchText)]

\* the try block ran to its end or to its return
DhlabidsDone(id, newStatus, newResults) ==
    /\ status' = newStatus
    /\ results' = newResults
    /\ calls' = Without(calls, id)
    /\ UNCHANGED <<storeVars, query, filterVars, isLoading, modalVars,
                   showFilterModal, countVars, nEdits>>

\* await concResp.json() resolves with the parsed body
DhlabidsJsonResolved(id, body) ==
    /\ id \in InFlight
    /\ calls[id].pc = "json"
    /\ IF body.shape = "null" THEN DhlabidsCatch(id, NullConcError)
       ELSE IF body.shape = "noconc" \/ Len(body.hits) = 0
       THEN DhlabidsDone(id, "Found results for \"" \o calls[id].query \o "\"",
                         ResultsNone)
       ELSE DhlabidsDone(id, "Found " \o ToString(Len(body.hits)) \o " matches for \""
                             \o calls[id].query \o "\"",
                         ResultsHits([i \in 1..Len(body.hits) |->
                                         DhlabidsRenderHit(body.hits[i])]))

\* mouseover on the i-th concordance: a tooltip with the link to the
\* document is appended to the page.  The pointer enters an element after
\* it left the one it was over, so no tooltip is on display.
DhlabidsMouseOver(i) ==
    /\ results.kind = "hits"
    /\ i \in 1..Len(results.hits)
    /\ ~showModal
    /\ showModal' = TRUE
    /\ modalData' = <<[link |-> "https://www.nb.no/items/" \o results.hits[i].urn]>>
    /\ UNCHANGED <<storeVars, query, filterVars, status, results, isLoading,
                   lastClick, showFilterModal, calls, countVars, nEdits>>

\* mouseout: the tooltip is removed
DhlabidsMouseOut ==
    /\ showModal
    /\ showModal' = FALSE
    /\ modalData' = <<>>
    /\ UNCHANGED <<storeVars, query, filterVars, status, results, isLoading,
                   lastClick, showFilterModal, calls, countVars, nEdits>>

DhlabidsNext ==
    \/ Running /\ \E data \in DhlabidsPayloads : DhlabidsCorpusLoaded(data)
    \/ Running /\ \E message \in LoadErrors : DhlabidsCorpusLoadFailed(message)
    \/ Running /\ \E value \in Queries : SetQuery(value)
    \/ Running /\ DhlabidsPerformSearch
    \/ Running /\ \E id \in SearchIds, message \in NetworkErrors :
                     DhlabidsFetchRejected(id, message)
    \/ Running /\ \E id \in SearchIds : DhlabidsFetchResponded(id, TRUE, 200, "")
    \/ Running /\ \E id \in SearchIds, st \in ErrorStatuses, bodyText \in ErrorTexts :
                     DhlabidsFetchResponded(id, FALSE, st, bodyText)
    \/ Running /\ \E id \in SearchIds, message \in NetworkErrors \cup JsonErrors :
                     DhlabidsJsonRejected(id, message)
    \/ Running /\ \E id \in SearchIds, body \in ApiBodies : DhlabidsJsonResolved(id, body)
    \/ Running /\ \E i \in 1..Len(results.hits) : DhlabidsMouseOver(i)
    \/ Running /\ DhlabidsMouseOut
    \/ DismissAlert

DhlabidsSpec == Init /\ [][DhlabidsNext]_vars

(***************************************************************************)
(* The filter modal on its own: the handlers of its controls, from the     *)
(* states in which a corpus of three authors is loaded, the modal is open  *)
(* and some of the authors have been selected in some order.               *)
(***************************************************************************)
RecNovel == Metadata("URN:6", "Amtmandens Dottre", "Collett", "1857", "Diverse")

FilterCorpus == Corpus \o <<RecNovel>>

\* texts typed into the author search field; each author matches one
FilterSearchTexts == {"", "n", "e"}

\* the lists of selected authors that a sequence of handleAuthorSelect calls
\* on a fresh page builds: the authors of a subset, in any order
AuthorSelections ==
    LET authors == Range(UniqueAuthorsOf(FilterCorpus))
    IN {<<>>}
       \cup {<<a>> : a \in authors}
       \cup {s \in {<<a, b>> : a \in authors, b \in authors} : s[1] # s[2]}
       \cup {s \in {<<a, b, c>> : a \in authors, b \in authors, c \in authors} :
                s[1] # s[2] /\ s[1] # s[3] /\ s[2] # s[3]}

FilterInit ==
    /\ loadPending = FALSE
    /\ corpusData = [shape |-> "array", dhlabids |-> FilterCorpus]
    /\ metadataArray = FilterCorpus
    /\ uniqueAuthors = UniqueAuthorsOf(FilterCorpus)
    /\ query = ""
    /\ selectedCategories = <<"All Categories">>
    /\ selectedAuthors \in AuthorSelections
    /\ authorSearch = ""
    /\ yearRange = <<MIN_YEAR, MAX_YEAR>>
    /\ status = "Loaded metadata for " \o ToString(Len(FilterCorpus)) \o " documents."
    /\ results = ResultsNull
    /\ isLoading = FALSE
    /\ showModal = FALSE
    /\ showFilterModal = TRUE
    /\ modalData = <<>>
    /\ calls = <<>>
    /\ nSearches = 0
    /\ nRequests = 0
    /\ alert = ""
    /\ nEdits = 0
    /\ lastClick = <<>>

FilterNext ==
    \/ Running /\ OpenFilterModal
    \/ Running /\ CloseFilterModal
    \/ Running /\ \E text \in FilterSearchTexts : HandleAuthorSearch(text)
    \/ Running /\ \E author \in Range(uniqueAuthors) : HandleAuthorSelect(author)
    \/ Running /\ \E author \in Range(selectedAuthors) : HandleAuthorRemove(author)
    \/ Running /\ \E selected \in SUBSET Range(CATEGORIES) : HandleCategoryChange(selected)
    \/ Running /\ \E name \in {"minYear", "maxYear"}, value \in YearChoices :
                     HandleYearRangeChange(name, value)

FilterSpec == FilterInit /\ [][FilterNext]_vars

(***************************************************************************)
(* Claims.                                                                 *)
(***************************************************************************)

\* C1: at most one search request to the API is in flight at any instant,
\* whatever sequence of Search clicks and Enter key presses arrives.
C1_AtMostOneInFlight == Cardinality(InFlight) <= 1

\* C2: the search lifecycle is Idle -> Validating -> Requesting -> (Success
\* | Failure) -> Idle: a request is in flight only after both precondition
\* checks passed, results or an error message are written only once the
\* request has settled, and the busy flag is set exactly while a search is
\* between the start of Requesting and its return to Idle.
C2_SearchLifecycle ==
    /\ \A id \in InFlight :
          calls[id].query # "" /\ Len(calls[id].metadataArray) > 0
    /\ (InFlight # {} => results = ResultsNull)
    /\ (isLoading <=> InFlight # {})

\* C3: every search that passes validation eventually returns to Idle
\* (its call has ended and isLoading is false), whatever the request
\* settles with.
C3_EverySearchReturnsToIdle ==
    \A id \in SearchIds : (id \in InFlight) ~> (id \notin InFlight /\ ~isLoading)

\* a search that failed with a non-2xx response has returned to Idle
C3_Witness ==
    /\ nSearches > 0
    /\ InFlight = {}
    /\ ~isLoading
    /\ status = "Error: HTTP error 500: Internal Server Error"

\* C4: each accepted search trigger issues exactly one request: a request
\* is sent only by a step that is a search trigger (Enter or the Search
\* button) passing validation, one request per such step, so that a failed
\* request is followed by no request until the next trigger.
C4_OneRequestPerTrigger ==
    [][nRequests' # nRequests =>
          /\ nRequests' = nRequests + 1
          /\ nSearches' = nSearches + 1
          /\ (EnterKey \/ SearchClick)]_vars

\* a request failed and no second request was sent
C4_Witness ==
    /\ nRequests = 1
    /\ InFlight = {}
    /\ results.kind = "error"
    /\ status = "Error: Failed to fetch"

\* the state a rejected search must leave alone
C5_ProgramState ==
    <<loadPending, corpusData, metadataArray, uniqueAuthors, query,
      selectedCategories, selectedAuthors, authorSearch, yearRange, status,
      results, isLoading, showModal, showFilterModal, modalData, calls,
      nSearches, nRequests>>

\* C5: a search triggered with an empty query, or while the metadata store
\* holds no records, is rejected with a prompt and changes no state: the
\* trigger raises the prompt, sends no request, and leaves status, results,
\* busy flag, filters and store as they were; and a prompt is raised by
\* nothing else.
C5_RejectedSearchChangesNothing ==
    [][/\ ((EnterKey \/ SearchClick) /\ (query = "" \/ Len(metadataArray) = 0))
            => alert' # ""
       /\ (alert = "" /\ alert' # "") =>
             /\ (query = "" \/ Len(metadataArray) = 0)
             /\ alert' = IF query = "" THEN "Please enter a search term"
                         ELSE "Metadata not loaded yet. Please try again."
             /\ UNCHANGED C5_ProgramState
       /\ nRequests' # nRequests => (query # "" /\ Len(metadataArray) > 0)]_vars

\* a search with a query was rejected because the store holds no records
C5_Witness ==
    /\ alert = "Metadata not loaded yet. Please try again."
    /\ query = "Norge"
    /\ metadataArray = <<>>

\* C6: when the corpus payload lacks a dhlabids array or the corpus fetch
\* fails, the load sets an error status and leaves the metadata store and
\* the unique-author list empty; the store is never partially populated.
C6_FailedLoadLeavesStoreEmpty ==
    /\ (~loadPending /\ corpusData.shape # "array") =>
          /\ status = IF corpusData.shape = "rejected"
                      THEN "Error loading metadata: Failed to fetch"
                      ELSE "Error: No valid metadata array found in JSON."
          /\ metadataArray = <<>>
          /\ uniqueAuthors = <<>>
    /\ metadataArray = <<>> \/
          (corpusData.shape = "array" /\ metadataArray = corpusData.dhlabids)

\* the payload held its records in a map instead of an array
C6_Witness ==
    /\ ~loadPending
    /\ corpusData.shape = "map"
    /\ Len(corpusData.dhlabids) > 0
    /\ metadataArray = <<>>

\* C7: the metadata store is write-once: only the corpus load writes it,
\* once, and every search request in flight was built from the fully loaded
\* store.
C7_StoreWriteOnce ==
    [][/\ metadataArray' # metadataArray =>
             (loadPending /\ ~loadPending' /\ metadataArray = <<>>)
       /\ \A id \in InFlight' :
             /\ ~loadPending'
             /\ metadataArray' = corpusData'.dhlabids
             /\ calls'[id].metadataArray = corpusData'.dhlabids
             /\ calls'[id].concBody.urns =
                   UrnsToUse(FilteredMetadata(corpusData'.dhlabids,
                                              calls'[id].selectedCategories,
                                              calls'[id].selectedAuthors,
                                              calls'[id].yearRange))]_vars

\* a request built under a narrowing filter is in flight and the store
\* still holds every record
C7_Witness ==
    /\ \E id \in InFlight : Len(calls[id].concBody.urns) < Len(metadataArray)
    /\ metadataArray = Corpus

\* the messages of a transport failure: the fetch or the read of the error
\* body was rejected, or the response was not ok
C8_TransportMessages ==
    {"Failed to fetch", "HTTP error 500: Internal Server Error"}

\* C8: when the search request returns a non-2xx status or fails on the
\* network, the results area is replaced by the inline "Search failed"
\* message, the status shows the error, no hit is shown any more, and the
\* busy flag is cleared.
C8_TransportErrorShown ==
    [][\A id \in InFlight :
          (calls[id].pc \in {"fetch", "text"} /\ id \notin InFlight') =>
             /\ \E m \in C8_TransportMessages :
                   /\ status' = "Error: " \o m
                   /\ results'.msg = "Search failed: " \o m
             /\ results'.kind = "error"
             /\ results'.hits = <<>>
             /\ ~isLoading']_vars

\* a non-2xx response is shown as the inline error
C8_Witness ==
    /\ results.kind = "error"
    /\ results.msg = "Search failed: HTTP error 500: Internal Server Error"
    /\ status = "Error: HTTP error 500: Internal Server Error"
    /\ ~isLoading

\* the statuses the catch block of performSearch writes
C9_ErrorStatuses ==
    {"Error: " \o m : m \in {"Failed to fetch", "Unexpected end of JSON input",
                             "HTTP error 500: Internal Server Error",
                             NullConcError, KeysOfUndefinedError}}

\* C9: when the concordance map of the API response is empty or absent,
\* the search ends with the empty-result indicator in the results area and
\* with neither an error message nor an error status.
C9_EmptyConcIsNotAnError ==
    [][\A id \in SearchIds, body \in ApiBodies :
          (/\ Running
           /\ JsonResolved(id, body)
           /\ body.shape \in {"conc", "noconc"}
           /\ body.hits = <<>>) =>
             /\ results'.kind = "no-results"
             /\ results'.msg = "No results found for this query."
             /\ status' \notin C9_ErrorStatuses]_vars

\* C10: a hit whose identifier is not in the metadata store is rendered,
\* and clicking it shows the details modal with the four placeholder
\* fields.
C10_UnknownIdentifierShowsPlaceholders ==
    [][(/\ lastClick' # lastClick
        /\ lastClick' # <<>>
        /\ lastClick'[1].metadata = <<>>) =>
          /\ showModal'
          /\ modalData' = <<[title |-> "Unknown Title",
                             author |-> "Unknown Author",
                             year |-> "Unknown Year",
                             category |-> "Unknown Category",
                             link |-> lastClick'[1].link]>>]_vars

\* the three predicates of C11 on one record, for the filters a call of
\* performSearch closed over
C11_Passes(item, call) ==
    /\ \/ "All Categories" \in Range(call.selectedCategories)
       \/ (item.category # "" /\ item.category \in Range(call.selectedCategories))
    /\ \/ call.selectedAuthors = <<>>
       \/ (item.author # "" /\ item.author \in Range(call.selectedAuthors))
    /\ LET year == ParseInt(IF item.year = "" THEN "0" ELSE item.year)
       IN /\ ~year.nan
          /\ year.n \in call.yearRange[1]..call.yearRange[2]

\* C11: the identifier list sent in a search request is exactly the
\* identifiers of the records that pass the category, author and year
\* predicates, in metadata order: the k-th identifier sent is that of the
\* k-th passing record, and there are as many identifiers as passing
\* records.
C11_UrnsAreThePassingRecords ==
    \A id \in InFlight :
       LET call == calls[id]
           recs == call.metadataArray
           urns == call.concBody.urns
           passing == {i \in 1..Len(recs) : C11_Passes(recs[i], call)}
       IN /\ Len(urns) = Cardinality(passing)
          /\ \A i \in passing :
                urns[Cardinality({j \in passing : j <= i})] = recs[i].urn

\* a request built under an author filter carries the two records of that
\* author and leaves out the three others
C11_Witness ==
    \E id \in InFlight :
       /\ calls[id].selectedAuthors = <<"Aasen">>
       /\ calls[id].metadataArray = Corpus
       /\ calls[id].concBody.urns = <<"URN:2", "URN:5">>

\* the filters of the initial state: every category, no author, the whole
\* year range
C12_Unfiltered(call) ==
    /\ call.selectedCategories = <<"All Categories">>
    /\ call.selectedAuthors = <<>>
    /\ call.yearRange = <<1814, 1905>>

\* C12 as stated: with categories = {"All Categories"}, no authors selected
\* and year range [1814, 1905] the predicates admit every record of the
\* metadata store, so the request carries the identifier of every loaded
\* record.
C12_UnfilteredAdmitsEveryRecord ==
    \A id \in InFlight :
       C12_Unfiltered(calls[id]) =>
          calls[id].concBody.urns =
             [i \in 1..Len(calls[id].metadataArray) |-> calls[id].metadataArray[i].urn]

\* C12 as amended: with categories = {"All Categories"}, no authors
\* selected and year range [1814, 1905] the request carries, in store
\* order, the identifiers of exactly the records whose year parses to an
\* integer from 1814 to 1905, whatever their category and author; a record
\* whose year is missing or parses to no integer is left out.
C12_UnfilteredAdmitsEveryDatedRecord ==
    \A id \in InFlight :
       C12_Unfiltered(calls[id]) =>
          LET recs == calls[id].metadataArray
              urns == calls[id].concBody.urns
              dated == {i \in 1..Len(recs) :
                          /\ recs[i].year # ""
                          /\ ~ParseInt(recs[i].year).nan
                          /\ ParseInt(recs[i].year).n \in 1814..1905}
          IN /\ Len(urns) = Cardinality(dated)
             /\ \A i \in dated :
                   urns[Cardinality({j \in dated : j <= i})] = recs[i].urn

\* an unfiltered request carries the three dated records of the five
C12_Witness ==
    \E id \in InFlight :
       /\ C12_Unfiltered(calls[id])
       /\ calls[id].metadataArray = Corpus
       /\ calls[id].concBody.urns = <<"URN:1", "URN:2", "URN:5">>

\* the year values of the model that are not numbers: missing, without a
\* leading digit, and digits followed by another character
C13_NotANumber == {"", "abc", "1857?"}

\* C13 as stated: a record whose year is missing or non-numeric is treated
\* as of year 0, so that it is in no request built under a year range whose
\* minimum is greater than 0 (and in the request only if the range contains
\* 0).
C13_NonNumericYearIsZero ==
    \A id \in InFlight :
       LET call == calls[id]
           recs == call.metadataArray
       IN \A i \in 1..Len(recs) :
             recs[i].year \in C13_NotANumber =>
                (recs[i].urn \in Range(call.concBody.urns) =>
                    0 \in call.yearRange[1]..call.yearRange[2])

\* C13 as amended: a record whose year is missing (treated as 0) or starts
\* with no digit (not a number, which no range admits) is in no request
\* built under a year range whose minimum is greater than 0; a year that
\* starts with digits is read as that leading integer, and the record is in
\* the request exactly when that integer lies in the range and the
\* category and author predicates pass.
C13_YearIsItsLeadingInteger ==
    \A id \in InFlight :
       LET call == calls[id]
           recs == call.metadataArray
           sent == Range(call.concBody.urns)
       IN \A i \in 1..Len(recs) :
             /\ (recs[i].year \in {"", "abc"} /\ call.yearRange[1] > 0) =>
                   recs[i].urn \notin sent
             /\ recs[i].year = "1857?" =>
                   (recs[i].urn \in sent <=>
                       /\ 1857 \in call.yearRange[1]..call.yearRange[2]
                       /\ CategoryMatch(recs[i], call.selectedCategories)
                       /\ AuthorMatch(recs[i], call.selectedAuthors))

\* a request built for one category carries the record of year "1857?" and
\* the store holds records without a year and with the year "abc"
C13_Witness ==
    \E id \in InFlight :
       /\ calls[id].selectedCategories = <<"Diverse">>
       /\ calls[id].metadataArray = Corpus
       /\ calls[id].concBody.urns = <<"URN:2", "URN:5">>

\* the k-th smallest element of a set of positions
C14_Kth(positions, k) ==
    CHOOSE p \in positions : Cardinality({q \in positions : q <= p}) = k

\* the inner texts of the match spans of a highlighted text, in document
\* order: the k-th span runs from the k-th opening tag to the k-th closing
\* tag
C14_Spans(text) ==
    LET opens == {p \in 1..Len(text) : text[p] = "<b>"}
        closes == {p \in 1..Len(text) : text[p] = "</b>"}
    IN [k \in 1..Cardinality(opens) |->
          Join(SubSeq(text, C14_Kth(opens, k) + 1, C14_Kth(closes, k) - 1), "")]

\* the URL encoding of the combined phrases of the model
C14_UrlEncoded(phrase) ==
    CASE phrase = "Norge" -> "Norge"
      [] phrase = "Norge fjord" -> "Norge%20fjord"

\* C14: for every hit, the destination link is built from all match spans
\* of the highlighted text in document order: the phrase is the spans'
\* inner texts joined by single spaces, the count is the number of spans,
\* and the link is
\* https://www.nb.no/items/<identifier>?searchText="<encoded phrase>"~<count>.
C14_LinkFromAllSpans ==
    results.kind = "hits" =>
       \A i \in 1..Len(results.hits) :
          LET hit == results.hits[i]
              spans == C14_Spans(hit.text)
          IN hit.link = "https://www.nb.no/items/" \o hit.urn \o "?searchText=\""
                        \o C14_UrlEncoded(Join(spans, " ")) \o "\"~"
                        \o ToString(Len(spans))

\* a hit with two match spans is displayed with its link
C14_Witness ==
    /\ results.kind = "hits"
    /\ \E i \in 1..Len(results.hits) :
          /\ results.hits[i].text = <<"<b>", "Norge", "</b>", " og ", "<b>", "fjord", "</b>">>
          /\ results.hits[i].link =
                "https://www.nb.no/items/URN:9?searchText=\"Norge%20fjord\"~2"

\* the highlighted text "before <b>Norge</b> after"
C15_Text == <<"before ", "<b>", "Norge", "</b>", " after">>

\* C15 as stated: the hit with the highlighted text
\* "before <b>Norge</b> after" has the one span "Norge", the phrase "Norge"
\* and the span count 1, and its destination link holds
\* searchText=%22Norge%22~1.
C15_LinkHasEncodedQuotes ==
    results.kind = "hits" =>
       \A i \in 1..Len(results.hits) :
          results.hits[i].text = C15_Text =>
             results.hits[i].link = "https://www.nb.no/items/" \o results.hits[i].urn
                                    \o "?searchText=%22Norge%22~1"

\* C15 as amended: the hit with the highlighted text
\* "before <b>Norge</b> after" has the one span "Norge", the phrase "Norge"
\* and the span count 1, and its destination link holds
\* searchText="Norge"~1, the quotes being the two literal characters.
C15_LinkHasLiteralQuotes ==
    results.kind = "hits" =>
       \A i \in 1..Len(results.hits) :
          results.hits[i].text = C15_Text =>
             results.hits[i].link = "https://www.nb.no/items/" \o results.hits[i].urn
                                    \o "?searchText=\"Norge\"~1"

\* the hit with the text "before <b>Norge</b> after" is displayed
C15_Witness ==
    /\ results.kind = "hits"
    /\ \E i \in 1..Len(results.hits) :
          /\ results.hits[i].text = C15_Text
          /\ results.hits[i].urn = "URN:2"
          /\ results.hits[i].link = "https://www.nb.no/items/URN:2?searchText=\"Norge\"~1"

\* C16: every search request carries the fixed fields limit = 1000,
\* window = 20 and html_formatting = true together with the query text of
\* the moment it is sent, whatever the filters and the query are.
C16_FixedRequestFields ==
    [][nRequests' # nRequests =>
          \E id \in InFlight' \ InFlight :
             LET body == calls'[id].concBody
             IN /\ DOMAIN body = {"urns", "query", "limit", "window", "html_formatting"}
                /\ body.limit = 1000
                /\ body.window = 20
                /\ body.html_formatting = TRUE
                /\ body.query = query]_vars

\* a request built under a category filter is in flight with its fixed
\* fields
C16_Witness ==
    \E id \in InFlight :
       /\ calls[id].selectedCategories = <<"Diktning: Epikk">>
       /\ calls[id].concBody = [urns |-> <<"URN:1">>, query |-> "Norge", limit |-> 1000,
                                window |-> 20, html_formatting |-> TRUE]

\* C17: after a successful corpus load of N records the unique-author list
\* holds every non-empty author value of the records exactly once, holds
\* nothing else, and is sorted ascending.
C17_UniqueAuthorsSorted ==
    (~loadPending /\ corpusData.shape = "array") =>
       LET recs == corpusData.dhlabids
           named == {recs[i].author : i \in 1..Len(recs)} \ {""}
       IN /\ Range(uniqueAuthors) = named
          /\ Len(uniqueAuthors) = Cardinality(named)
          /\ \A i, j \in 1..Len(uniqueAuthors) :
                i < j => AuthorRank(uniqueAuthors[i]) < AuthorRank(uniqueAuthors[j])

\* the five records, of which one has no author and two pairs share one,
\* gave the two authors in order
C17_Witness ==
    /\ ~loadPending
    /\ corpusData.dhlabids = Corpus
    /\ metadataArray = Corpus
    /\ uniqueAuthors = <<"Aasen", "Bjornson">>

\* the texts that stand before and after a part of the messages of the model
C18_Affixes ==
    {"", "Error: HTTP error ", "Search failed: HTTP error ",
     "Error: HTTP error 500: ", "Search failed: HTTP error 500: ",
     ": Internal Server Error"}

\* the message holds the part as a substring
C18_Contains(message, part) ==
    \E before, after \in C18_Affixes : message = before \o part \o after

\* C18: when the search API answers with a non-2xx status, the failure
\* shown to the user holds both the HTTP status code and the text of the
\* response body, in every page variant: in the status line and in the
\* results area, once the call that received the response has ended.
C18_FailureShowsStatusAndBody ==
    [][\A id \in SearchIds, st \in ErrorStatuses, bodyText \in ErrorTexts :
          (\/ Running /\ TextResolved(id, bodyText) /\ calls[id].httpStatus = st
           \/ Running /\ DhlabidsFetchResponded(id, FALSE, st, bodyText)) =>
             /\ C18_Contains(status', ToString(st))
             /\ C18_Contains(status', bodyText)
             /\ C18_Contains(results'.msg, ToString(st))
             /\ C18_Contains(results'.msg, bodyText)]_vars

\* the status texts a call of performSearch writes when it ends with an
\* error
C19_ErrorsOf(call) ==
    {"Error: " \o m : m \in {"Failed to fetch", "Unexpected end of JSON input",
                             "HTTP error 500: Internal Server Error",
                             NullConcError, KeysOfUndefinedError}}

\* the status texts a call of performSearch writes when it ends with a
\* response: the number of hits found for the query and the filters the
\* call closed over
C19_FoundOf(call) ==
    {"Found " \o ToString(n) \o " results for \"" \o call.query \o "\""
        \o CategoryText(call.selectedCategories)
        \o AuthorText(call.selectedAuthors) \o YearText(call.yearRange) :
     n \in 0..2}

\* C19: when two searches overlap, the busy flag is cleared as soon as one
\* of the requests settles although the other is still in flight, and the
\* results and the status on display once both have settled are those of
\* the response that arrived last: the end of any call clears the flag and
\* replaces status and results by that call's outcome, whichever search is
\* the later one, and they then stay until the next search.
C19_LastResponseWins ==
    [][/\ \A id \in InFlight :
             id \notin InFlight' =>
                /\ ~isLoading'
                /\ \/ (status' \in C19_ErrorsOf(calls[id]) /\ results'.kind = "error")
                   \/ (status' \in C19_FoundOf(calls[id])
                       /\ results'.kind \in {"no-results", "hits"})
       /\ (InFlight = {} /\ InFlight' = {} /\ nSearches > 0) =>
             UNCHANGED <<status, results, isLoading>>]_vars

\* the search triggered second, under a category filter, has settled and
\* cleared the busy flag while the search triggered first, without filter,
\* is still in flight
C19_Witness ==
    /\ InFlight = {1}
    /\ nSearches = 2
    /\ calls[1].selectedCategories = <<"All Categories">>
    /\ ~isLoading
    /\ status = "Found 2 results for \"Norge\" in categories: Diverse"
    /\ results.kind = "hits"

C21_AllCategoriesStandsAlone ==
    [][/\ \/ selectedCategories' = <<"All Categories">>
          \/ "All Categories" \notin Range(selectedCategories')
       /\ \A selected \in SUBSET Range(CATEGORIES) :
             (Running /\ HandleCategoryChange(selected)) =>
                /\ "All Categories" \in selected =>
                      selectedCategories' = <<"All Categories">>
                /\ "All Categories" \notin selected =>
                      /\ Range(selectedCategories') = selected
                      /\ Len(selectedCategories') = Cardinality(selected)]_vars

\* the categories were narrowed to one, a search was started, and a second
\* change of the selection brought back "All Categories" alone
C21_Witness ==
    /\ nEdits = 2
    /\ selectedCategories = <<"All Categories">>
    /\ \E id \in InFlight : calls[id].selectedCategories = <<"Diverse">>

\* the position of x in the duplicate-free list s
C22_Position(s, x) == CHOOSE i \in 1..Len(s) : s[i] = x

\* C22: after any sequence of author select and remove operations the
\* selected-author list holds no duplicates; selecting an author already
\* selected leaves the list unchanged (and selecting another author adds
\* it), and removing an author removes it entirely and leaves the other
\* selected authors and their order unchanged.
C22_SelectedAuthorsAreDistinct ==
    [][/\ \A i, j \in 1..Len(selectedAuthors') :
             i # j => selectedAuthors'[i] # selectedAuthors'[j]
       /\ \A author \in Range(uniqueAuthors) :
             (Running /\ HandleAuthorSelect(author)) =>
                /\ author \in Range(selectedAuthors) =>
                      selectedAuthors' = selectedAuthors
                /\ Range(selectedAuthors') = Range(selectedAuthors) \cup {author}
       /\ \A author \in Range(selectedAuthors) :
             (Running /\ HandleAuthorRemove(author)) =>
                /\ Range(selectedAuthors') = Range(selectedAuthors) \ {author}
                /\ \A x, y \in Range(selectedAuthors') :
                      C22_Position(selectedAuthors', x) < C22_Position(selectedAuthors', y)
                         <=> C22_Position(selectedAuthors, x)
                                < C22_Position(selectedAuthors, y)]_vars

\* two operations on the list left two of the three authors selected, the
\* later in the alphabet first
C22_Witness ==
    /\ nEdits = 2
    /\ selectedAuthors = <<"Collett", "Aasen">>

\* C23: a year-range change sets the bound that the input names to the
\* input's value and leaves the other bound as it was, whether or not the
\* result has minYear <= maxYear; while the range is inverted the year
\* predicate admits no record of the store, and a search triggered with a
\* query and a loaded store is not rejected: it sends a request whose
\* identifier list is empty.
C23_InvertedRangeSearchesNothing ==
    [][/\ \A name \in {"minYear", "maxYear"}, value \in YearChoices :
             (Running /\ HandleYearRangeChange(name, value)) =>
                /\ name = "minYear" =>
                      yearRange'[1] = value /\ yearRange'[2] = yearRange[2]
                /\ name = "maxYear" =>
                      yearRange'[2] = value /\ yearRange'[1] = yearRange[1]
       /\ yearRange[1] > yearRange[2] =>
             /\ \A i \in 1..Len(metadataArray) : ~YearMatch(metadataArray[i], yearRange)
             /\ (/\ Running
                 /\ EnterKey \/ SearchClick
                 /\ query # ""
                 /\ Len(metadataArray) > 0) =>
                   /\ alert' = ""
                   /\ nRequests' = nRequests + 1
                   /\ \E id \in InFlight' \ InFlight :
                         /\ calls'[id].pc = "fetch"
                         /\ calls'[id].concBody.urns = <<>>]_vars

\* a request is in flight that was sent with minYear above maxYear
C23_Witness ==
    \E id \in InFlight :
       /\ calls[id].yearRange = <<MAX_YEAR, MIN_YEAR>>
       /\ calls[id].concBody.urns = <<>>
       /\ nRequests > 0

\* the corpus load has ended without a metadata array
C24_LoadFailed == ~loadPending /\ corpusData.shape # "array"

\* C24 as stated: after a failed corpus load every later search trigger is
\* rejected by the check of the metadata store, with its prompt, no request
\* is ever sent, and the load is not attempted again.
C24_EveryTriggerMeetsTheStoreCheck ==
    [][C24_LoadFailed =>
          /\ C24_LoadFailed'
          /\ corpusData' = corpusData
          /\ metadataArray' = <<>>
          /\ nRequests' = 0
          /\ InFlight' = {}
          /\ (Running /\ (EnterKey \/ SearchClick)) =>
                alert' = "Metadata not loaded yet. Please try again."]_vars

\* C24, amended: after a failed corpus load every later search trigger is
\* rejected, by the check of the query when the query is empty and by the
\* check of the metadata store otherwise, each with its prompt; no request
\* is ever sent, and the load is not attempted again.
C24_EveryTriggerIsRejected ==
    [][C24_LoadFailed =>
          /\ C24_LoadFailed'
          /\ corpusData' = corpusData
          /\ metadataArray' = <<>>
          /\ nRequests' = 0
          /\ InFlight' = {}
          /\ (Running /\ (EnterKey \/ SearchClick)) =>
                alert' = IF query = "" THEN "Please enter a search term"
                         ELSE "Metadata not loaded yet. Please try again."]_vars

\* after the corpus fetch failed, a search with a query was rejected
C24_Witness ==
    /\ ~loadPending
    /\ corpusData.shape = "rejected"
    /\ query = "Norge"
    /\ alert = "Metadata not loaded yet. Please try again."
    /\ nRequests = 0

\* everything but the shown flag of the details modal
C25_AllButShowModal ==
    <<loadPending, corpusData, metadataArray, uniqueAuthors, query,
      selectedCategories, selectedAuthors, authorSearch, yearRange, status,
      results, isLoading, showFilterModal, modalData, calls, nSearches,
      nRequests, alert, nEdits, lastClick>>

\* C25: whenever the details modal is shown its data is set and the link
\* it carries is the destination link of the hit that was clicked last;
\* closing the modal clears the shown flag and changes nothing else.
C25_ModalShowsLastClickedHit ==
    [][/\ showModal' =>
             /\ modalData' # <<>>
             /\ lastClick' # <<>>
             /\ modalData'[1].link = lastClick'[1].link
       /\ (Running /\ CloseModal) =>
             /\ ~showModal'
             /\ UNCHANGED C25_AllButShowModal]_vars

====
